---- MODULE Spec2Model ----
(***************************************************************************)
(* Model of the directory navigation and listing logic of the file         *)
(* explorer in src/src/main.rs: the FileExplorer struct, refresh_entries,  *)
(* navigate_to, the per-frame update handler and on_exit.                  *)
(*                                                                         *)
(* A path is the sequence of its components, as std::path::Path sees it:   *)
(* the root directory is the component RootDir, ".." is the component      *)
(* ParentDir, every other component is a file name.  A file name is the    *)
(* sequence of its bytes, so that names compare as OsStr compares them.    *)
(* Option<T> is a sequence of length 0 (None) or 1 (Some(v)).              *)
(*                                                                         *)
(* The filesystem is outside the program and may change between any two    *)
(* calls.  Every call that reads it (read_dir, is_dir, spawn) therefore    *)
(* takes its answer as an input of the action; the answers of the is_dir   *)
(* calls made by one sort are taken from one snapshot.                     *)
(*                                                                         *)
(* FileExplorer.selected_entry, the highlighted row, is written by the     *)
(* render pass only and read by nothing but the widget that draws it; it   *)
(* is left out, and so is the formatting of sizes and dates.               *)
(***************************************************************************)
EXTENDS Naturals, Sequences, FiniteSets

VARIABLES
    current_path,      \* FileExplorer.current_path : PathBuf
    entries,           \* FileExplorer.entries : Vec<PathBuf>
    error_message,     \* FileExplorer.error_message : Option<String>
    path_to_navigate,  \* FileExplorer.path_to_navigate : Option<PathBuf>
    needs_repaint,     \* FileExplorer.needs_repaint : bool
    pc,                \* position of the update handler: "idle", "render", "exited"
    last               \* what the last step did and which answers it was given

vars == <<current_path, entries, error_message,
          path_to_navigate, needs_repaint, pc, last>>

----------------------------------------------------------------------------
\* Bounds of the model.

\* Deepest directory, counted in file names below the root, that is visited.
MaxDepth == 1

\* Most rows of one frame that receive a pointer event.
MaxEvents == 2

\* The file names that directories hold: "!", "a" and "ab".  "!" compares
\* below "..", and "a" is a proper prefix of "ab".
Names == { <<33>>, <<97>>, <<97, 98>> }

----------------------------------------------------------------------------
\* Option<T>

None == <<>>

Some(v) == <<v>>

----------------------------------------------------------------------------
\* std::path components and the Path methods the program calls.

RootDir == <<47>>

ParentDir == <<46, 46>>

\* parent, were the root taken for its own parent (as "/.." resolves).
parent_root_loops(path) ==
    IF path = <<>>
    THEN None
    ELSE IF path = <<RootDir>> THEN Some(path)
    ELSE Some(SubSeq(path, 1, Len(path) - 1))

\* Path::parent: the path without its final component, if there is one.
parent(path) ==
    IF path = <<>> \/ path = <<RootDir>>
    THEN None
    ELSE Some(SubSeq(path, 1, Len(path) - 1))

\* Path::join with a single relative component.
join(path, comp) == Append(path, comp)

\* Path::ends_with(".."): the last component is the parent-directory one.
ends_with_parent(path) ==
    Len(path) > 0 /\ path[Len(path)] = ParentDir

\* file_name, were ".." taken for a name.
file_name_dotdot(path) ==
    IF path = <<>> \/ path[Len(path)] = RootDir
    THEN None
    ELSE Some(path[Len(path)])

\* Path::file_name: None when the path ends in "..", is the root, or is empty.
file_name(path) ==
    IF path = <<>> \/ path[Len(path)] = ParentDir \/ path[Len(path)] = RootDir
    THEN None
    ELSE Some(path[Len(path)])

is_absolute(path) == Len(path) > 0 /\ path[1] = RootDir

\* Number of file names of a path below the root.
Depth(path) == Cardinality({ i \in 1..Len(path) : path[i] \in Names })

----------------------------------------------------------------------------
\* Ordering, as the sort's comparator computes it.

\* Ord of two byte strings (OsStr): lexicographic, a proper prefix is less.
RECURSIVE bytes_cmp(_, _)
bytes_cmp(a, b) ==
    IF a = <<>> /\ b = <<>> THEN "Equal"
    ELSE IF a = <<>> THEN "Less"
    ELSE IF b = <<>> THEN "Greater"
    ELSE IF Head(a) < Head(b) THEN "Less"
    ELSE IF Head(a) > Head(b) THEN "Greater"
    ELSE bytes_cmp(Tail(a), Tail(b))

\* Ord of Option<&OsStr>: None is less than every Some.
option_cmp(x, y) ==
    IF x = None /\ y = None THEN "Equal"
    ELSE IF x = None THEN "Less"
    ELSE IF y = None THEN "Greater"
    ELSE bytes_cmp(x[1], y[1])

----------------------------------------------------------------------------
\* What the filesystem answers.

\* io::Error kinds that fs::read_dir fails with.
ReadErrors == { "NotFound", "PermissionDenied" }

\* io::Error kinds that Command::spawn fails with.
SpawnErrors == { "NotFound" }

\* The orders in which read_dir may yield the names of the set S.
Orders(S) ==
    { f \in [1..Cardinality(S) -> S] : \A i, j \in DOMAIN f : i # j => f[i] # f[j] }

\* A failed read_dir.
ReadErr(e) ==
    [ok |-> FALSE, err |-> e, listed |-> <<>>, dirs |-> {}, searchable |-> FALSE]

\* A successful read_dir, with the snapshot that the is_dir calls of the
\* following sort see: the names yielded, in order; the ones that are
\* directories; whether the directory can be searched (without search
\* permission every stat below it fails and is_dir is false for all).
ReadOk(listed, dirs, searchable) ==
    [ok |-> TRUE, err |-> "", listed |-> listed, dirs |-> dirs,
     searchable |-> searchable]

\* The successful answers of read_dir over the names of the model.
ReadOks ==
    UNION { UNION { { ReadOk(o, d, TRUE) : d \in SUBSET S }
                    \cup { ReadOk(o, {}, FALSE) } : o \in Orders(S) }
            : S \in SUBSET Names }

\* The answers fs::read_dir(path) may give.  The empty path, which is what
\* current_dir().unwrap_or_default() leaves when there is no working
\* directory, names nothing.
ReadOutcomes(path) ==
    IF ~is_absolute(path)
    THEN { ReadErr("NotFound") }
    ELSE { ReadErr(e) : e \in ReadErrors } \cup ReadOks

\* The answers path.is_dir() may give; a relative path is looked up from a
\* working directory that does not exist.
\* navigate_to does not ask for a path ending in "..".
IsDirAnswers(path) ==
    IF is_absolute(path) /\ ~ends_with_parent(path) THEN BOOLEAN ELSE { FALSE }

\* Path::is_dir during the sort that follows a successful read_dir rd.
is_dir(path, rd) ==
    IF ends_with_parent(path)
    THEN rd.searchable
    ELSE path[Len(path)] \in rd.dirs

----------------------------------------------------------------------------
\* refresh_entries

\* clear, left out.
clear_missing(es) == es

\* self.entries.clear()
clear(es) == <<>>

\* clear_error, left out.
clear_error_missing(err) == err

\* self.error_message = None
clear_error(err) == None

\* push_parent, without the test for the root.
push_parent_always(es, path) == Append(es, join(path, ParentDir))

\* Add the parent directory (..) unless at the root.
push_parent(es, path) ==
    IF parent(path) # None THEN Append(es, join(path, ParentDir)) ELSE es

\* Add every entry of the directory read, in the order read_dir yields them.
RECURSIVE push_children(_, _, _)
push_children(es, path, listed) ==
    IF listed = <<>>
    THEN es
    ELSE push_children(Append(es, join(path, Head(listed))), path, Tail(listed))

\* compare, by file name only.
compare_names_only(a, b, rd) == option_cmp(file_name(a), file_name(b))

\* The closure given to sort_by: directories first, then by file name.
compare(a, b, rd) ==
    LET a_is_dir == is_dir(a, rd)
        b_is_dir == is_dir(b, rd)
    IN  IF a_is_dir /\ ~b_is_dir THEN "Less"
        ELSE IF ~a_is_dir /\ b_is_dir THEN "Greater"
        ELSE option_cmp(file_name(a), file_name(b))

\* One step of a stable sort: x goes behind the last element not greater.
insert(sorted, x, rd) ==
    LET keep == { i \in 1..Len(sorted) : compare(sorted[i], x, rd) # "Greater" }
        k == IF keep = {} THEN 0 ELSE CHOOSE i \in keep : \A j \in keep : j <= i
    IN  SubSeq(sorted, 1, k) \o <<x>> \o SubSeq(sorted, k + 1, Len(sorted))

\* Vec::sort_by: a stable sort.  (The standard library merges runs; for a
\* comparator that is a total order every stable sort gives this result.)
RECURSIVE sort_from(_, _, _)
sort_from(sorted, rest, rd) ==
    IF rest = <<>>
    THEN sorted
    ELSE sort_from(insert(sorted, Head(rest), rd), Tail(rest), rd)

sort_by(es, rd) == sort_from(<<>>, es, rd)

\* format!("Error reading directory: {}", e)
read_error(e) == <<"Error reading directory: ", e>>

\* FileExplorer::refresh_entries, on the explorer st, given read_dir's answer.
refresh_entries(st, rd) ==
    LET cleared == clear(st.entries)
    IN  IF rd.ok
        THEN [st EXCEPT
                !.error_message = clear_error(st.error_message),
                !.entries = sort_by(push_children(
                                push_parent(cleared, st.current_path),
                                st.current_path, rd.listed), rd)]
        ELSE [st EXCEPT
                !.entries = cleared,
                !.error_message = Some(read_error(rd.err))]

----------------------------------------------------------------------------
\* navigate_to

\* navigates, without the is_dir test.
navigates_unchecked(cur, path, isdir) ==
    IF ends_with_parent(path) THEN parent(cur) # None ELSE TRUE

\* Whether navigate_to(path) changes the location and refreshes.
navigates(cur, path, isdir) ==
    IF ends_with_parent(path) THEN parent(cur) # None ELSE isdir

\* The location navigate_to(path) moves to when it navigates.
destination(cur, path) ==
    IF ends_with_parent(path) THEN parent(cur)[1] ELSE path

\* FileExplorer::navigate_to, given the answers of path.is_dir() and of the
\* read_dir of the refresh.
navigate_to(st, path, isdir, rd) ==
    IF navigates(st.current_path, path, isdir)
    THEN [refresh_entries(
              [st EXCEPT !.current_path = destination(st.current_path, path)],
              rd)
          EXCEPT !.needs_repaint = TRUE]
    ELSE st

----------------------------------------------------------------------------
\* The update handler's render pass.

\* format!("Failed to open file: {}", e)
launch_error(e) == <<"Failed to open file: ", e>>

\* open_file_with_default_app: Ok(()) when the spawn succeeds, else the message.
open_file_with_default_app(spawn) ==
    IF spawn = "ok" THEN None ELSE Some(launch_error(spawn))

\* The pointer events a row may receive in one frame, given what the row
\* is in that frame (is_parent_dir || entry.is_dir() decides):
\*   "button"  a directory row's button is clicked,
\*   "open"    a file row is double-clicked; spawn is "ok" or the io::Error
\*             kind of the failed spawn.
RowEvents(entry) ==
    { [ev |-> "button", spawn |-> "ok"] }
    \cup (IF ends_with_parent(entry)
          THEN {}
          ELSE { [ev |-> "open", spawn |-> r] : r \in {"ok"} \cup SpawnErrors })

\* The inputs of a frame: the events of at most MaxEvents rows of the
\* listing.  A row below the deepest directory of the model is not entered.
FrameEvents(es) ==
    { f \in UNION { [R -> UNION { RowEvents(es[i]) : i \in R }]
                    : R \in { Q \in SUBSET (1..Len(es)) : Cardinality(Q) <= MaxEvents } } :
        \A i \in DOMAIN f :
            /\ f[i] \in RowEvents(es[i])
            /\ f[i].ev = "button" /\ ~ends_with_parent(es[i])
                   => Depth(es[i]) <= MaxDepth }

\* set_clicked, keeping the first click of the frame.
set_clicked_first(clicked_path, entry) ==
    IF clicked_path # None THEN clicked_path ELSE Some(entry)

\* clicked_path = Some(entry.clone())
set_clicked(clicked_path, entry) == Some(entry)

\* store_launch_result, dropping the failure.
store_launch_result_dropped(err, result) == err

\* if let Err(e) = open_file_with_default_app(..) { self.error_message = Some(e) }
store_launch_result(err, result) == IF result # None THEN result ELSE err

\* The body of the loop over self.entries.iter().enumerate(), for a row
\* that received the event e.
render_row(acc, entry, e) ==
    IF e.ev = "button"
    THEN [acc EXCEPT !.clicked_path = set_clicked(acc.clicked_path, entry)]
    ELSE [acc EXCEPT
            !.error_message =
                store_launch_result(acc.error_message,
                                    open_file_with_default_app(e.spawn))]

\* The loop over the rows, from the row at position i (from 1) on.
RECURSIVE render_rows(_, _, _, _)
render_rows(acc, es, f, i) ==
    IF i > Len(es)
    THEN acc
    ELSE render_rows(IF i \in DOMAIN f THEN render_row(acc, es[i], f[i]) ELSE acc,
                     es, f, i + 1)

\* if let Some(path) = clicked_path { self.path_to_navigate = Some(path) }
commit_clicked(slot, clicked_path) ==
    IF clicked_path # None THEN clicked_path ELSE slot

----------------------------------------------------------------------------
\* The state machine.

Self ==
    [current_path |-> current_path, entries |-> entries,
     error_message |-> error_message, needs_repaint |-> needs_repaint]

\* The record of a step: the operation, the path it was given, is_dir's
\* answer for that path, whether it refreshed, read_dir's answer if it did,
\* the error shown before it, and the events of a render pass (the rows
\* whose button was clicked, whether a launch was asked for and how it ended).
Step(op, arg, isdir, refreshed, rd, buttons, launch) ==
    [op |-> op, arg |-> arg, isdir |-> isdir, refreshed |-> refreshed,
     read_ok |-> refreshed /\ rd.ok,
     dirs |-> IF refreshed /\ rd.ok THEN rd.dirs ELSE {},
     prev_error |-> error_message,
     buttons |-> buttons, launch |-> launch]

\* Where the explorer may start: any directory down to MaxDepth, or the empty
\* path when the working directory cannot be determined.
RECURSIVE PathsBelow(_, _)
PathsBelow(path, d) ==
    { path } \cup
    (IF d = 0 THEN {}
     ELSE UNION { PathsBelow(join(path, n), d - 1) : n \in Names })

StartPaths == PathsBelow(<<RootDir>>, MaxDepth) \cup { <<>> }

\* impl Default for FileExplorer
Init ==
    \E start \in StartPaths :
      \E rd \in ReadOutcomes(start) :
      \E st \in { refresh_entries(
                      [current_path |-> start, entries |-> <<>>,
                       error_message |-> None, needs_repaint |-> FALSE], rd) } :
            /\ current_path = st.current_path
            /\ entries = st.entries
            /\ error_message = st.error_message
            /\ needs_repaint = st.needs_repaint
            /\ path_to_navigate = None
            /\ pc = "idle"
            /\ last = [op |-> "default", arg |-> None, isdir |-> FALSE, refreshed |-> TRUE,
                       read_ok |-> rd.ok, dirs |-> rd.dirs, prev_error |-> None,
                       buttons |-> {}, launch |-> "none"]

\* refresh_entries called on its own, between two frames.
RefreshEntries ==
    /\ pc = "idle"
    /\ path_to_navigate = None
    /\ \E rd \in ReadOutcomes(current_path) :
       \E st \in { refresh_entries(Self, rd) } :
             /\ entries' = st.entries
             /\ error_message' = st.error_message
             /\ last' = Step("refresh", None, FALSE, TRUE, rd, {}, "none")
    /\ UNCHANGED <<current_path, path_to_navigate, needs_repaint, pc>>

\* No read_dir was made.
NoRead == ReadErr("")

\* The answers the read_dir of navigate_to(path) may get: it is made only
\* when the call navigates.
NavReads(cur, path, isdir) ==
    IF navigates(cur, path, isdir)
    THEN ReadOutcomes(destination(cur, path))
    ELSE { NoRead }

\* The paths navigate_to is called with: the parent entry and the children
\* of the current location, down to MaxDepth.
Targets(cur) ==
    { join(cur, ParentDir) }
    \cup { join(cur, n) : n \in { m \in Names : Depth(cur) < MaxDepth } }

\* navigate_to called on its own, between two frames.
NavigateTo ==
    /\ pc = "idle"
    /\ path_to_navigate = None
    /\ \E path \in Targets(current_path) :
       \E isdir \in IsDirAnswers(path) :
       \E rd \in NavReads(current_path, path, isdir) :
       \E st \in { navigate_to(Self, path, isdir, rd) } :
         LET nav == navigates(current_path, path, isdir)
         IN  /\ current_path' = st.current_path
             /\ entries' = st.entries
             /\ error_message' = st.error_message
             /\ needs_repaint' = st.needs_repaint
             /\ last' = Step("navigate", Some(path), isdir, nav, rd, {}, "none")
    /\ UNCHANGED <<path_to_navigate, pc>>

\* The launch of a file row, lines 224-228 of update, on its own: the row is
\* not the parent entry and is not a directory when it is double-clicked.
Activate ==
    /\ pc = "idle"
    /\ path_to_navigate = None
    /\ \E i \in 1..Len(entries) :
       \E spawn \in {"ok"} \cup SpawnErrors :
         /\ ~ends_with_parent(entries[i])
         /\ error_message' =
                store_launch_result(error_message, open_file_with_default_app(spawn))
         /\ last' = Step("activate", Some(entries[i]), FALSE, FALSE, NoRead, {},
                         IF spawn = "ok" THEN "ok" ELSE "fail")
    /\ UNCHANGED <<current_path, entries, path_to_navigate, needs_repaint, pc>>

\* update, up to the render pass: take the pending navigation and apply it,
\* then hand a wanted repaint to the context.
UpdateDrain ==
    /\ pc = "idle"
    /\ IF path_to_navigate # None
       THEN LET path == path_to_navigate[1]
            IN  \E isdir \in IsDirAnswers(path) :
                \E rd \in NavReads(current_path, path, isdir) :
                \E st \in { navigate_to(Self, path, isdir, rd) } :
                  LET nav == navigates(current_path, path, isdir)
                  IN  /\ current_path' = st.current_path
                      /\ entries' = st.entries
                      /\ error_message' = st.error_message
                      /\ last' = Step("drain", Some(path), isdir, nav, rd, {}, "none")
       ELSE /\ UNCHANGED <<current_path, entries, error_message>>
            /\ last' = Step("drain", None, FALSE, FALSE, NoRead, {}, "none")
    /\ path_to_navigate' = None
    /\ needs_repaint' = FALSE
    /\ pc' = "render"

\* update, the render pass: the loop over the rows with the frame's events,
\* then the clicked path becomes the pending navigation.
UpdateRender ==
    /\ pc = "render"
    /\ \E f \in FrameEvents(entries) :
       \E acc \in { render_rows([clicked_path |-> None,
                                   error_message |-> error_message],
                                  entries, f, 1) } :
         LET opened == { i \in DOMAIN f : f[i].ev = "open" }
         IN  /\ error_message' = acc.error_message
             /\ path_to_navigate' = commit_clicked(path_to_navigate, acc.clicked_path)
             /\ last' = Step("render", None, FALSE, FALSE, NoRead,
                             { i \in DOMAIN f : f[i].ev = "button" },
                             IF opened = {} THEN "none"
                             ELSE IF \E i \in opened : f[i].spawn # "ok" THEN "fail"
                             ELSE "ok")
    /\ pc' = "idle"
    /\ UNCHANGED <<current_path, entries, needs_repaint>>

\* on_exit
OnExit ==
    /\ pc = "idle"
    /\ entries' = <<>>
    /\ error_message' = None
    /\ path_to_navigate' = None
    /\ pc' = "exited"
    /\ last' = Step("exit", None, FALSE, FALSE, NoRead, {}, "none")
    /\ UNCHANGED <<current_path, needs_repaint>>

\* The operations of the explorer, called in any order.
Next ==
    \/ RefreshEntries
    \/ NavigateTo
    \/ Activate

Spec == Init /\ [][Next]_vars

\* The program as the UI framework runs it: frame after frame, then exit.
FrameNext ==
    \/ UpdateDrain
    \/ UpdateRender
    \/ OnExit

FrameSpec == Init /\ [][FrameNext]_vars

----------------------------------------------------------------------------
\* Vocabulary of the properties.

\* The entry is a ParentMarker: its last component is "..".
IsMarker(e) == Len(e) > 0 /\ e[Len(e)] = ParentDir

\* The location has no parent directory: the root, or the empty path.
HasNoParent(loc) == loc = <<RootDir>> \/ loc = <<>>

\* Byte string a is before byte string b.
NameBefore(a, b) ==
    \E k \in 1..(Len(b)) :
        /\ \A i \in 1..(k - 1) : i <= Len(a) /\ a[i] = b[i]
        /\ \/ Len(a) = k - 1
           \/ Len(a) >= k /\ a[k] < b[k]

\* The entry was directory-class when the listing was made.
DirClass(e) == IsMarker(e) \/ e[Len(e)] \in last.dirs

\* The last step made a refresh whose read_dir succeeded.
Refreshed == last.refreshed /\ last.read_ok

Markers == { i \in 1..Len(entries) : IsMarker(entries[i]) }

LaunchFailure == Some(<<"Failed to open file: ", "NotFound">>)

----------------------------------------------------------------------------
\* C1: a refresh whose read of the location fails, called directly or by a
\* navigate, stores the failure message and leaves the listing as it was.
C1_FailedRefreshKeepsListing ==
    [][ (last'.refreshed /\ ~last'.read_ok)
            => (entries' = entries /\ error_message' # None) ]_vars

\* C2: navigate(ParentMarker) at a location without parent changes none of
\* location, listing and error, and makes no refresh.
C2_ParentAtRootIsNoOp ==
    [][ (last'.op = "navigate" /\ IsMarker(last'.arg[1]) /\ HasNoParent(current_path))
            => (/\ current_path' = current_path
                /\ entries' = entries
                /\ error_message' = error_message
                /\ ~last'.refreshed) ]_vars

C2_Witness ==
    /\ last.op = "navigate"
    /\ last.arg = Some(<<RootDir, ParentDir>>)
    /\ current_path = <<RootDir>>
    /\ ~last.refreshed
    /\ Len(entries) >= 2

\* C3: navigate(target) for a target that is not the ParentMarker and is not a
\* directory when asked changes none of location, listing and error.
C3_NonDirectoryDeclined ==
    [][ (last'.op = "navigate" /\ ~IsMarker(last'.arg[1]) /\ ~last'.isdir)
            => (/\ current_path' = current_path
                /\ entries' = entries
                /\ error_message' = error_message) ]_vars

C3_Witness ==
    /\ last.op = "navigate"
    /\ ~IsMarker(last.arg[1])
    /\ ~last.isdir
    /\ ~last.refreshed
    /\ \E i \in 1..Len(entries) : entries[i] = last.arg[1]
    /\ last.prev_error # None
    /\ error_message = last.prev_error

\* C4: after a successful refresh every directory-class entry is before every
\* file entry, and entries of one class are in ascending file-name order.
C4_DirsFirstThenByName ==
    Refreshed =>
        \A i, j \in 1..Len(entries) :
            i < j =>
                /\ ~(~DirClass(entries[i]) /\ DirClass(entries[j]))
                /\ (DirClass(entries[i]) = DirClass(entries[j]) /\ ~IsMarker(entries[j]))
                       => \/ IsMarker(entries[i])
                          \/ NameBefore(entries[i][Len(entries[i])],
                                        entries[j][Len(entries[j])])

\* A directory with a parent, two subdirectories "a", "ab" and the file "!":
\* the listing is [.., a, ab, !].
C4_Witness ==
    /\ Refreshed
    /\ Len(entries) = 4
    /\ IsMarker(entries[1])
    /\ entries[2] = join(current_path, <<97>>)
    /\ entries[3] = join(current_path, <<97, 98>>)
    /\ entries[4] = join(current_path, <<33>>)
    /\ last.dirs = { <<97>>, <<97, 98>> }

\* C5: a launch that fails stores the launch failure message, over any
\* message shown before, and changes neither location nor listing; a launch
\* that succeeds changes none of location, listing and error.
C5_ActivateTouchesOnlyError ==
    [][ last'.op = "activate"
            => (/\ current_path' = current_path
                /\ entries' = entries
                /\ last'.launch = "fail" => error_message' = LaunchFailure
                /\ last'.launch = "ok" => error_message' = error_message) ]_vars

C5_Witness ==
    /\ last.op = "activate"
    /\ last.launch = "fail"
    /\ last.prev_error = None
    /\ error_message = LaunchFailure
    /\ Len(entries) >= 2

\* C6: the error is at most one message; right after a refresh that succeeds
\* it is empty, whatever it was; a navigate that does not refresh leaves it.
C6_ErrorClearedBySuccessfulRefresh ==
    [][ /\ Len(error_message') <= 1
        /\ (last'.refreshed /\ last'.read_ok) => error_message' = None
        /\ (last'.op = "navigate" /\ ~last'.refreshed)
               => error_message' = error_message ]_vars

C6_Witness ==
    /\ Refreshed
    /\ last.prev_error = LaunchFailure
    /\ error_message = None

\* C7: after a successful refresh the listing holds exactly one ParentMarker
\* if the location has a parent, and none if it has not.
C7_OneMarkerUnlessRoot ==
    Refreshed =>
        Cardinality(Markers) = IF HasNoParent(current_path) THEN 0 ELSE 1

C7_Witness ==
    /\ Refreshed
    /\ ~HasNoParent(current_path)
    /\ Cardinality(Markers) = 1
    /\ Len(entries) = 3

\* C8: the pending navigation is one slot: a render pass leaves in it the
\* last row clicked of the frame; the next frame takes it, calls navigate
\* with it, once, before its render pass, and a render pass begins with the
\* slot empty.
C8_SingleSlotLastWins ==
    [][ /\ pc' = "render" => path_to_navigate' = None
        /\ (pc = "idle" /\ pc' = "render")
               => /\ last'.arg = path_to_navigate
                  /\ last'.refreshed => path_to_navigate # None
                  /\ path_to_navigate = None
                         => /\ current_path' = current_path
                            /\ entries' = entries
                            /\ error_message' = error_message
        /\ (pc = "render" /\ pc' = "idle")
               => path_to_navigate' =
                      IF last'.buttons = {}
                      THEN None
                      ELSE Some(entries[CHOOSE i \in last'.buttons :
                                            \A j \in last'.buttons : j <= i]) ]_vars

C8_Witness ==
    /\ pc = "idle"
    /\ last.op = "render"
    /\ last.buttons = { 1, 3 }
    /\ path_to_navigate = Some(entries[3])

\* C9: a ParentMarker in the listing is its first entry, whatever the names
\* of the other entries.
C9_MarkerFirst ==
    \A i \in 1..Len(entries) : IsMarker(entries[i]) => i = 1

\* The marker is listed before the directory "!", whose name is below "..".
C9_Witness ==
    /\ Refreshed
    /\ Len(entries) >= 2
    /\ IsMarker(entries[1])
    /\ entries[2] = join(current_path, <<33>>)
    /\ <<33>> \in last.dirs

\* C10: every entry of the listing is the current location's ParentMarker or
\* a direct child of the current location.
C10_ListingIsOfLocation ==
    \A i \in 1..Len(entries) :
        /\ Len(entries[i]) = Len(current_path) + 1
        /\ SubSeq(entries[i], 1, Len(current_path)) = current_path
        /\ entries[i][Len(entries[i])] \in Names \cup { ParentDir }

\* A navigate out of a listed directory into another whose listing has rows.
C10_Witness ==
    /\ last.op = "navigate"
    /\ Refreshed
    /\ Len(entries) >= 2
    /\ ~HasNoParent(current_path)

====
